---- MODULE Spec2Model ----
(***************************************************************************)
(* Model of the bus recording session of bus_analysis/data_downloader.py:  *)
(* DataDownloader.record_buses, its polling loop, the retry loop of        *)
(* _download_valid_json, the per-entry parser and the validity/dedup check *)
(* _is_record_valid, with the statistics of myutils.py; and of the         *)
(* analysis functions of myutils.py, each called on its own: the merge of  *)
(* statistics, get_speeds, get_positions_of_interest and                   *)
(* print_bus_speed_info.                                                   *)
(*                                                                         *)
(* Time is counted in whole clock units; datetime.now() reads the variable *)
(* now, which the environment advances (Tick).  The API is the             *)
(* environment: every fetch draws its outcome from the bounded sets below. *)
(***************************************************************************)
EXTENDS Integers, Sequences, FiniteSets, TLC

\* ---------------------------------------------------------------- bounds
\* Vehicles that report.
NumVehicles == 2
\* Last value of the clock and of a record's timestamp.
MaxClock == 2
\* Longest configured download duration.
MaxDuration == 1
\* What the API sends in one session: every answered fetch counts one, every
\* entry of a snapshot counts one.
MaxTraffic == 4
\* Greatest counter of a statistics value an analysis call is given.
MaxCount == 1
\* Longest record list an analysis function is given.
MaxRecs == 3
\* Clock readings per second, where the clock is finer than the timestamps.
TicksPerSecond == 2
\* The most bus stops download_departures is called on.
MaxStops == 2
\* The most lines _download_bus_lines returns for a bus stop.
MaxLines == 2

Vehicles == 1..NumVehicles
Times == 0..MaxClock

VARIABLES
    pc,                \* position of the single thread of control
    now,               \* the wall clock read by datetime.now()
    download_duration, \* config.get_download_duration()
    time_of_start,     \* record_buses: time_of_start
    time_of_end,       \* _record_buses_loop: time_of_end
    stats,             \* _record_buses_loop: stats
    bus_recs,          \* _record_buses_loop: bus_recs
    last_bus_recs,     \* _record_buses_loop: last_bus_recs (dict)
    n_requests,        \* _download_valid_json: n_requests
    response,          \* _download_valid_json: response
    cur_bus_recs,      \* _record_buses_loop: cur_bus_recs
    cur_stats,         \* _record_buses_loop: cur_stats
    returned,          \* what record_buses returned, <<>> before
    failure,           \* the exception that left record_buses, "none" before
    n_iterations,      \* history: completed loop iterations
    n_malformed,       \* history: malformed responses received
    n_fetches,         \* history: calls of _download_json that were issued
    max_seen,          \* history: per vehicle, the greatest timestamp handed
                       \* to _is_record_valid so far, -1 when none was
    traffic,           \* history: answered fetches plus entries received
    time_of_exit,      \* history: the clock when the loop's test failed, -1
                       \* before
    fn_args,           \* the arguments of a call of an analysis function
    fn_result,         \* what the call returned or raised, <<>> before
    departures,        \* download_departures: departures
    file_id,           \* download_departures: file_id
    n_departures,      \* download_departures: n_departures
    i_bus_stop,        \* download_departures: the place of bus_stop in
                       \* bus_stops
    lines,             \* download_departures: the lines of lines not yet
                       \* taken by the inner for loop
    files,             \* the departures folder: contents by file id
    downloaded,        \* history: the departures downloaded so far
    writes             \* history: the file ids written so far, in order

departure_vars == <<departures, file_id, n_departures, i_bus_stop, lines,
                    files, downloaded, writes>>

vars == <<pc, now, download_duration, time_of_start, time_of_end, stats,
          bus_recs, last_bus_recs, n_requests, response, cur_bus_recs,
          cur_stats, returned, failure, n_iterations,
          n_malformed, n_fetches, max_seen, traffic, time_of_exit,
          fn_args, fn_result, departure_vars>>

\* No call of download_departures is under way: its locals hold nothing and
\* the departures folder is empty.
NoDownload ==
    /\ departures = <<>>
    /\ file_id = 0
    /\ n_departures = 0
    /\ i_bus_stop = 0
    /\ lines = <<>>
    /\ files = <<>>
    /\ downloaded = <<>>
    /\ writes = <<>>

\* ------------------------------------------------------------ data model

Abs(x) == IF x < 0 THEN -x ELSE x

\* Position: a point of a grid, the coordinates counted in grid steps.
Position(lat, lon) == [lat |-> lat, lon |-> lon]

\* Position.distance_to, in metres.  The great circle distance is replaced
\* by a metric of the grid: 60 m for each step along either coordinate.
distance_to(self, other) ==
    60 * (Abs(self.lat - other.lat) + Abs(self.lon - other.lon))

\* BusRecord.__init__; __eq__ and __hash__ read veh and time only.
BusRecord(vehicle_number, line, brigade, time, pos) ==
    [veh |-> vehicle_number, line |-> line, brigade |-> brigade,
     time |-> time, pos |-> pos]

\* One entry of a snapshot's result list.
\*   "ok"       every field present, Time in the configured format
\*   "bad_time" Time is a string that strptime rejects   (ValueError)
\*   "no_field" a field of the entry is missing          (KeyError)
\* veh, lines, brigade, lat and lon stand for VehicleNumber, Lines, Brigade,
\* Lat and Lon, time for the datetime that Time denotes.  In a session a
\* vehicle keeps its line, its brigade and its place.
BusJson(kind, veh, time) ==
    [kind |-> kind, veh |-> veh, time |-> time, lines |-> 100 + veh,
     brigade |-> 10 + veh, lat |-> veh, lon |-> 0]

OkEntries == {BusJson("ok", veh, time) : veh \in Vehicles, time \in Times}
BadTimeEntry == BusJson("bad_time", 1, 0)
NoFieldEntry == BusJson("no_field", 1, 0)
Entries == OkEntries \cup {BadTimeEntry, NoFieldEntry}

\* get_bus_record_from_json, for an entry it does not raise on.
get_bus_record_from_json(bus_record) ==
    BusRecord(bus_record.veh, bus_record.lines, bus_record.brigade,
              bus_record.time, Position(bus_record.lat, bus_record.lon))

SnapshotsOfLen(n) == [1..n -> Entries]

\* What json.loads hands to _download_valid_json.
\*   "valid"           {"result": [...]}
\*   "result_not_list" {"result": "error text"}
\*   "no_result"       an object without a result field
ValidResponse(snapshot) == [kind |-> "valid", result |-> snapshot]
ResultNotList == [kind |-> "result_not_list", result |-> <<>>]
NoResult == [kind |-> "no_result", result |-> <<>>]
NoResponse == [kind |-> "none", result |-> <<>>]

\* BusRecordingStatistics.__init__; the default window times are evaluated
\* once, when the class is defined, which is before the session starts.
DefaultTime == -1

BusRecordingStatistics(n_req, n_succ, n_rec, t_start, t_end) ==
    [n_requests |-> n_req,
     n_successful_requests |-> n_succ,
     n_records |-> n_rec,
     processing_start_time |-> t_start,
     processing_end_time |-> t_end]

\* Mutant of add_requests_and_records_info: the requests of other are left
\* out of the sum.
add_requests_and_records_info_drops_requests(self, other) ==
    BusRecordingStatistics(
        self.n_requests,
        self.n_successful_requests + other.n_successful_requests,
        self.n_records + other.n_records,
        self.processing_start_time,
        other.processing_end_time)

\* Mutant of add_requests_and_records_info: every merge counts one more
\* successful request instead of adding those of other.
add_requests_and_records_info_counts_merges(self, other) ==
    BusRecordingStatistics(
        self.n_requests + other.n_requests,
        self.n_successful_requests + 1,
        self.n_records + other.n_records,
        self.processing_start_time,
        other.processing_end_time)

\* BusRecordingStatistics.add_requests_and_records_info.
add_requests_and_records_info(self, other) ==
    BusRecordingStatistics(
        self.n_requests + other.n_requests,
        self.n_successful_requests + other.n_successful_requests,
        self.n_records + other.n_records,
        self.processing_start_time,
        other.processing_end_time)

is_response_json_valid(resp) == resp.kind = "valid"

\* log_api_error reads response["result"]: KeyError when it is missing.
log_api_error_raises(resp) == resp.kind = "no_result"

\* get_bus_record_from_json raises KeyError on a missing field; only
\* ValueError is caught by _parse_bus_records.
parse_raises(snapshot) ==
    \E i \in 1..Len(snapshot) : snapshot[i].kind = "no_field"

RECURSIVE parse_bus_records(_)
parse_bus_records(snapshot) ==
    IF snapshot = <<>> THEN <<>>
    ELSE LET bus == Head(snapshot)
             rest == parse_bus_records(Tail(snapshot))
         IN  IF bus.kind = "ok"
             THEN <<get_bus_record_from_json(bus)>> \o rest
             ELSE rest

\* Mutant of is_record_valid: the duplicate test written with > instead of
\* >=, so a record with the timestamp of the last one passes rule (a).
is_record_valid_accepts_equal(last, bus_rec, t_start) ==
    LET veh_num == bus_rec.veh
    IN  IF veh_num \in DOMAIN last /\ last[veh_num] > bus_rec.time
        THEN [valid |-> FALSE, last |-> last]
        ELSE [valid |-> bus_rec.time > t_start,
              last |-> [v \in (DOMAIN last) \cup {veh_num} |->
                           IF v = veh_num THEN bus_rec.time ELSE last[v]]]

\* Mutant of is_record_valid: the session window tested first, so a record
\* that is too old returns before the dict is updated.
is_record_valid_window_first(last, bus_rec, t_start) ==
    LET veh_num == bus_rec.veh
    IN  IF ~(bus_rec.time > t_start)
        THEN [valid |-> FALSE, last |-> last]
        ELSE IF veh_num \in DOMAIN last /\ last[veh_num] >= bus_rec.time
        THEN [valid |-> FALSE, last |-> last]
        ELSE [valid |-> TRUE,
              last |-> [v \in (DOMAIN last) \cup {veh_num} |->
                           IF v = veh_num THEN bus_rec.time ELSE last[v]]]

\* Mutant of is_record_valid: the dict is written before the duplicate test
\* returns, so a rejected duplicate overwrites the last timestamp.
is_record_valid_writes_on_reject(last, bus_rec, t_start) ==
    LET veh_num == bus_rec.veh
        written == [v \in (DOMAIN last) \cup {veh_num} |->
                       IF v = veh_num THEN bus_rec.time ELSE last[v]]
    IN  IF veh_num \in DOMAIN last /\ last[veh_num] >= bus_rec.time
        THEN [valid |-> FALSE, last |-> written]
        ELSE [valid |-> bus_rec.time > t_start, last |-> written]

\* _is_record_valid: the verdict and the dict after the call.
is_record_valid(last, bus_rec, t_start) ==
    LET veh_num == bus_rec.veh
    IN  IF veh_num \in DOMAIN last /\ last[veh_num] >= bus_rec.time
        THEN [valid |-> FALSE, last |-> last]
        ELSE [valid |-> bus_rec.time > t_start,
              last |-> [v \in (DOMAIN last) \cup {veh_num} |->
                           IF v = veh_num THEN bus_rec.time ELSE last[v]]]

\* valid_buses = [bus_rec for bus_rec in cur_bus_recs
\*                if self._is_record_valid(last_bus_recs, bus_rec, ...)]:
\* the records kept, in order, and the dict after the last call.
RECURSIVE valid_buses_of(_, _, _)
valid_buses_of(last, recs, t_start) ==
    IF recs = <<>> THEN [valid |-> <<>>, last |-> last]
    ELSE LET r == is_record_valid(last, Head(recs), t_start)
             rest == valid_buses_of(r.last, Tail(recs), t_start)
         IN  [valid |-> (IF r.valid THEN <<Head(recs)>> ELSE <<>>)
                        \o rest.valid,
              last |-> rest.last]

EmptyDict == [v \in {} |-> 0]

\* History only: the greatest timestamp per vehicle after recs were handed
\* to _is_record_valid, starting from seen.
RECURSIVE max_seen_after(_, _)
max_seen_after(seen, recs) ==
    IF recs = <<>> THEN seen
    ELSE LET rec == Head(recs)
             seen1 == [seen EXCEPT ![rec.veh] =
                          IF rec.time > @ THEN rec.time ELSE @]
         IN  max_seen_after(seen1, Tail(recs))

\* ------------------------------------------------------------------ Init
Init ==
    /\ pc = "init"
    /\ now = 0
    /\ download_duration \in 0..MaxDuration
    /\ time_of_start = 0
    /\ time_of_end = 0
    /\ stats = BusRecordingStatistics(0, 0, 0, DefaultTime, DefaultTime)
    /\ bus_recs = <<>>
    /\ last_bus_recs = EmptyDict
    /\ n_requests = 0
    /\ response = NoResponse
    /\ cur_bus_recs = <<>>
    /\ cur_stats = BusRecordingStatistics(0, 0, 0, DefaultTime, DefaultTime)
    /\ returned = <<>>
    /\ failure = "none"
    /\ n_iterations = 0
    /\ n_malformed = 0
    /\ n_fetches = 0
    /\ max_seen = [v \in Vehicles |-> -1]
    /\ traffic = 0
    /\ time_of_exit = -1
    /\ fn_args = <<>>
    /\ fn_result = <<>>
    /\ NoDownload

\* --------------------------------------------------------------- actions

\* The clock advances while the session waits: in the blocking fetch and its
\* sleep, and between two statements that read the clock.  The steps that
\* only compute take no time.  The session starts at the clock's origin.
TickTo(last) ==
    /\ pc \in {"loop", "request", "after_loop"}
    /\ now < last
    /\ now' = now + 1
    /\ UNCHANGED <<pc, download_duration, time_of_start, time_of_end, stats,
                   bus_recs, last_bus_recs, n_requests, response,
                   cur_bus_recs, cur_stats, returned, failure, n_iterations,
                   n_malformed, n_fetches, max_seen, traffic>>
    /\ UNCHANGED <<time_of_exit, fn_args, fn_result, departure_vars>>

Tick == TickTo(MaxClock)

\* record_buses up to the call of _record_buses_loop, and the loop's set-up.
RecordBuses ==
    /\ pc = "init"
    /\ time_of_start' = now
    /\ time_of_end' = now + download_duration
    /\ stats' = BusRecordingStatistics(0, 0, 0, DefaultTime, DefaultTime)
    /\ bus_recs' = <<>>
    /\ last_bus_recs' = EmptyDict
    /\ pc' = "loop"
    /\ UNCHANGED <<now, download_duration, n_requests, response,
                   cur_bus_recs, cur_stats, returned, failure, n_iterations,
                   n_malformed, n_fetches, max_seen, traffic>>
    /\ UNCHANGED <<time_of_exit, fn_args, fn_result, departure_vars>>

\* while datetime.now() < time_of_end: enter an iteration,
\* _download_current_buses calls _download_valid_json (n_requests = 0).
LoopEnter ==
    /\ pc = "loop"
    /\ now < time_of_end
    /\ n_requests' = 0
    /\ pc' = "request"
    /\ UNCHANGED <<now, download_duration, time_of_start, time_of_end, stats,
                   bus_recs, last_bus_recs, response, cur_bus_recs,
                   cur_stats, returned, failure, n_iterations, n_malformed,
                   n_fetches, max_seen, traffic>>
    /\ UNCHANGED <<time_of_exit, fn_args, fn_result, departure_vars>>

\* Mutant of LoopExit: the loop also ends after its first iteration, whatever
\* the clock reads.
LoopExit_after_first_iteration ==
    /\ pc = "loop"
    /\ n_iterations >= 1 \/ ~(now < time_of_end)
    /\ pc' = "after_loop"
    /\ UNCHANGED <<now, download_duration, time_of_start, time_of_end, stats,
                   bus_recs, last_bus_recs, n_requests, response,
                   cur_bus_recs, cur_stats, returned, failure, n_iterations,
                   n_malformed, n_fetches, max_seen, traffic>>
    /\ time_of_exit' = now
    /\ UNCHANGED <<fn_args, fn_result, departure_vars>>

\* while datetime.now() < time_of_end: the test fails, the loop returns.
LoopExit ==
    /\ pc = "loop"
    /\ ~(now < time_of_end)
    /\ pc' = "after_loop"
    /\ UNCHANGED <<now, download_duration, time_of_start, time_of_end, stats,
                   bus_recs, last_bus_recs, n_requests, response,
                   cur_bus_recs, cur_stats, returned, failure, n_iterations,
                   n_malformed, n_fetches, max_seen, traffic>>
    /\ time_of_exit' = now
    /\ UNCHANGED <<fn_args, fn_result, departure_vars>>

\* Mutant of DownloadJsonFails: the failure is caught and the fetch retried.
DownloadJsonFails_retries ==
    /\ pc = "request"
    /\ n_fetches < MaxTraffic
    /\ n_fetches' = n_fetches + 1
    /\ failure' = "transport"
    /\ pc' = "request"
    /\ UNCHANGED <<now, download_duration, time_of_start, time_of_end, stats,
                   bus_recs, last_bus_recs, n_requests, response,
                   cur_bus_recs, cur_stats, returned, n_iterations,
                   n_malformed, max_seen, traffic>>
    /\ UNCHANGED <<time_of_exit, fn_args, fn_result, departure_vars>>

\* One pass of the while True of _download_valid_json, the fetch raising:
\* urlopen fails, nothing catches it.
DownloadJsonFails ==
    /\ pc = "request"
    /\ n_fetches' = n_fetches + 1
    /\ failure' = "transport"
    /\ pc' = "error"
    /\ UNCHANGED <<now, download_duration, time_of_start, time_of_end, stats,
                   bus_recs, last_bus_recs, n_requests, response,
                   cur_bus_recs, cur_stats, returned, n_iterations,
                   n_malformed, max_seen, traffic>>
    /\ UNCHANGED <<time_of_exit, fn_args, fn_result, departure_vars>>

\* Mutant of DownloadJsonReturns: n_requests counted only for the response
\* that is returned.
DownloadJsonReturns_counts_valid_only(resp) ==
    /\ pc = "request"
    /\ n_fetches' = n_fetches + 1
    /\ response' = resp
    /\ IF is_response_json_valid(resp)
       THEN /\ n_requests' = n_requests + 1
            /\ pc' = "parse"
            /\ UNCHANGED <<failure, n_malformed>>
       ELSE IF log_api_error_raises(resp)
       THEN /\ pc' = "error"
            /\ failure' = "KeyError_result"
            /\ n_malformed' = n_malformed + 1
            /\ UNCHANGED n_requests
       ELSE /\ pc' = "request"
            /\ n_malformed' = n_malformed + 1
            /\ UNCHANGED <<failure, n_requests>>
    /\ traffic < MaxTraffic
    /\ traffic' = traffic + 1 + Len(resp.result)
    /\ UNCHANGED <<now, download_duration, time_of_start, time_of_end, stats,
                   bus_recs, last_bus_recs, cur_bus_recs, cur_stats,
                   returned, n_iterations, max_seen>>
    /\ UNCHANGED <<time_of_exit, fn_args, fn_result, departure_vars>>

\* One pass of the while True of _download_valid_json, the fetch returning
\* resp: count it, return it when valid, else log it (log_api_error raises
\* when the response has no result) and go round again.
DownloadJsonReturns(resp) ==
    /\ pc = "request"
    /\ n_fetches' = n_fetches + 1
    /\ response' = resp
    /\ n_requests' = n_requests + 1
    /\ IF is_response_json_valid(resp)
       THEN /\ pc' = "parse"
            /\ UNCHANGED <<failure, n_malformed>>
       ELSE IF log_api_error_raises(resp)
       THEN /\ pc' = "error"
            /\ failure' = "KeyError_result"
            /\ n_malformed' = n_malformed + 1
       ELSE /\ pc' = "request"
            /\ n_malformed' = n_malformed + 1
            /\ UNCHANGED failure
    /\ traffic < MaxTraffic
    /\ traffic' = traffic + 1 + Len(resp.result)
    /\ UNCHANGED <<now, download_duration, time_of_start, time_of_end, stats,
                   bus_recs, last_bus_recs, cur_bus_recs, cur_stats,
                   returned, n_iterations, max_seen>>
    /\ UNCHANGED <<time_of_exit, fn_args, fn_result, departure_vars>>

DownloadValid ==
    /\ pc = "request"
    /\ \E n \in 0..(MaxTraffic - traffic - 1) :
           \E s \in SnapshotsOfLen(n) :
               DownloadJsonReturns(ValidResponse(s))
DownloadResultNotList == DownloadJsonReturns(ResultNotList)
DownloadNoResult == DownloadJsonReturns(NoResult)

\* The rest of _download_current_buses: the iteration's statistics and
\* _parse_bus_records; then the comprehension of the loop starts.  The
\* response goes out of scope.
ParseBusRecords ==
    /\ pc = "parse"
    /\ ~parse_raises(response.result)
    /\ cur_stats' = BusRecordingStatistics(n_requests, 1, 0,
                                           DefaultTime, DefaultTime)
    /\ cur_bus_recs' = parse_bus_records(response.result)
    /\ response' = NoResponse
    /\ pc' = "filter"
    /\ UNCHANGED <<now, download_duration, time_of_start, time_of_end, stats,
                   bus_recs, last_bus_recs, n_requests, returned, failure,
                   n_iterations, n_malformed, n_fetches, max_seen, traffic>>
    /\ UNCHANGED <<time_of_exit, fn_args, fn_result, departure_vars>>

\* _parse_bus_records meets an entry whose parse raises something other
\* than ValueError: nothing catches it.
ParseBusRecordsFails ==
    /\ pc = "parse"
    /\ parse_raises(response.result)
    /\ failure' = "KeyError_entry"
    /\ pc' = "error"
    /\ UNCHANGED <<now, download_duration, time_of_start, time_of_end, stats,
                   bus_recs, last_bus_recs, n_requests, response,
                   cur_bus_recs, cur_stats, returned, n_iterations,
                   n_malformed, n_fetches, max_seen, traffic>>
    /\ UNCHANGED <<time_of_exit, fn_args, fn_result, departure_vars>>

\* Mutant of EndIteration: the deadline is looked at again at the end of the
\* body and an iteration that overran it is thrown away.
EndIteration_checks_deadline ==
    /\ pc = "filter"
    /\ LET f == valid_buses_of(last_bus_recs, cur_bus_recs, time_of_start)
       IN  /\ last_bus_recs' = f.last
           /\ bus_recs' = IF now < time_of_end THEN bus_recs \o f.valid
                                               ELSE bus_recs
    /\ stats' = IF now < time_of_end
                THEN add_requests_and_records_info(stats, cur_stats)
                ELSE stats
    /\ n_iterations' = n_iterations + 1
    /\ max_seen' = max_seen_after(max_seen, cur_bus_recs)
    /\ cur_bus_recs' = <<>>
    /\ cur_stats' = BusRecordingStatistics(0, 0, 0, DefaultTime, DefaultTime)
    /\ n_requests' = 0
    /\ pc' = "loop"
    /\ UNCHANGED <<now, download_duration, time_of_start, time_of_end,
                   response, returned, failure, n_malformed, n_fetches,
                   traffic>>
    /\ UNCHANGED <<time_of_exit, fn_args, fn_result, departure_vars>>

\* Mutant of EndIteration: the new records are put in front of the list.
EndIteration_prepends ==
    /\ pc = "filter"
    /\ LET f == valid_buses_of(last_bus_recs, cur_bus_recs, time_of_start)
       IN  /\ last_bus_recs' = f.last
           /\ bus_recs' = f.valid \o bus_recs
    /\ stats' = add_requests_and_records_info(stats, cur_stats)
    /\ n_iterations' = n_iterations + 1
    /\ max_seen' = max_seen_after(max_seen, cur_bus_recs)
    /\ cur_bus_recs' = <<>>
    /\ cur_stats' = BusRecordingStatistics(0, 0, 0, DefaultTime, DefaultTime)
    /\ n_requests' = 0
    /\ pc' = "loop"
    /\ UNCHANGED <<now, download_duration, time_of_start, time_of_end,
                   response, returned, failure, n_malformed, n_fetches,
                   traffic>>
    /\ UNCHANGED <<time_of_exit, fn_args, fn_result, departure_vars>>

\* The rest of the loop body: the comprehension over cur_bus_recs (which
\* updates last_bus_recs as it goes), bus_recs += valid_buses and the merge
\* of the iteration's statistics.  The names bound inside the body are
\* rebound by the next iteration before they are read, so they are cleared.
EndIteration ==
    /\ pc = "filter"
    /\ LET f == valid_buses_of(last_bus_recs, cur_bus_recs, time_of_start)
       IN  /\ last_bus_recs' = f.last
           /\ bus_recs' = bus_recs \o f.valid
    /\ stats' = add_requests_and_records_info(stats, cur_stats)
    /\ n_iterations' = n_iterations + 1
    /\ max_seen' = max_seen_after(max_seen, cur_bus_recs)
    /\ cur_bus_recs' = <<>>
    /\ cur_stats' = BusRecordingStatistics(0, 0, 0, DefaultTime, DefaultTime)
    /\ n_requests' = 0
    /\ pc' = "loop"
    /\ UNCHANGED <<now, download_duration, time_of_start, time_of_end,
                   response, returned, failure, n_malformed, n_fetches,
                   traffic>>
    /\ UNCHANGED <<time_of_exit, fn_args, fn_result, departure_vars>>

\* Mutant of Return: the statistics the loop handed back are returned as they
\* are, with the window and the record count of the merge.
Return_keeps_loop_stats ==
    /\ pc = "after_loop"
    /\ returned' = <<[bus_recs |-> bus_recs, stats |-> stats]>>
    /\ pc' = "done"
    /\ UNCHANGED <<now, download_duration, time_of_start, time_of_end, stats,
                   bus_recs, last_bus_recs, n_requests, response,
                   cur_bus_recs, cur_stats, failure, n_iterations,
                   n_malformed, n_fetches, max_seen, traffic>>
    /\ UNCHANGED <<time_of_exit, fn_args, fn_result, departure_vars>>

\* record_buses after the loop: the final statistics and the return.
Return ==
    /\ pc = "after_loop"
    /\ returned' = <<[bus_recs |-> bus_recs,
                      stats |-> BusRecordingStatistics(
                                    stats.n_requests,
                                    stats.n_successful_requests,
                                    Len(bus_recs),
                                    time_of_start,
                                    now)]>>
    /\ pc' = "done"
    /\ UNCHANGED <<now, download_duration, time_of_start, time_of_end, stats,
                   bus_recs, last_bus_recs, n_requests, response,
                   cur_bus_recs, cur_stats, failure, n_iterations,
                   n_malformed, n_fetches, max_seen, traffic>>
    /\ UNCHANGED <<time_of_exit, fn_args, fn_result, departure_vars>>

\* The steps of the program, as opposed to the clock's.
Program ==
    \/ RecordBuses
    \/ LoopEnter
    \/ LoopExit
    \/ DownloadJsonFails
    \/ DownloadValid
    \/ DownloadResultNotList
    \/ DownloadNoResult
    \/ ParseBusRecords
    \/ ParseBusRecordsFails
    \/ EndIteration
    \/ Return

Next ==
    \/ Tick
    \/ RecordBuses
    \/ LoopEnter
    \/ LoopExit
    \/ DownloadJsonFails
    \/ DownloadValid
    \/ DownloadResultNotList
    \/ DownloadNoResult
    \/ ParseBusRecords
    \/ ParseBusRecordsFails
    \/ EndIteration
    \/ Return

Spec == Init /\ [][Next]_vars

\* The single thread keeps running and the clock keeps advancing.
FairSpec == Spec /\ WF_vars(Tick) /\ WF_vars(Program)

\* ------------------------------------------ the session of test_record_buses

\* In this session the clock counts TicksPerSecond ticks to the second, and
\* the time format has whole seconds.
\* TimeParser.parse_to_str: the text names the second the time falls in.
parse_to_str(time) == time \div TicksPerSecond

\* TimeParser.parse_to_datetime: the time at the start of the second named.
parse_to_datetime(text) == text * TicksPerSecond

\* The entry download_valid_bus_rec_json_mock builds at clock time: the one
\* vehicle, its Time the clock rendered in the time format and read back by
\* get_bus_record_from_json.
MockBusJson(time) == BusJson("ok", 1, parse_to_datetime(parse_to_str(time)))

\* The last clock reading of the test session: one second past the latest
\* end of a session.
LastTestClock == (MaxDuration + 2) * TicksPerSecond - 1

\* The session starts anywhere within a second; the configured duration is
\* a positive number of whole seconds.
TestInit ==
    /\ pc = "init"
    /\ now \in 0..(TicksPerSecond - 1)
    /\ download_duration \in {d * TicksPerSecond : d \in 1..MaxDuration}
    /\ time_of_start = 0
    /\ time_of_end = 0
    /\ stats = BusRecordingStatistics(0, 0, 0, DefaultTime, DefaultTime)
    /\ bus_recs = <<>>
    /\ last_bus_recs = EmptyDict
    /\ n_requests = 0
    /\ response = NoResponse
    /\ cur_bus_recs = <<>>
    /\ cur_stats = BusRecordingStatistics(0, 0, 0, DefaultTime, DefaultTime)
    /\ returned = <<>>
    /\ failure = "none"
    /\ n_iterations = 0
    /\ n_malformed = 0
    /\ n_fetches = 0
    /\ max_seen = [v \in Vehicles |-> -1]
    /\ traffic = 0
    /\ time_of_exit = -1
    /\ fn_args = <<>>
    /\ fn_result = <<>>
    /\ NoDownload

TestTick == TickTo(LastTestClock)

\* The patched _download_valid_json returns its snapshot and 1.
DownloadMock == DownloadJsonReturns(ValidResponse(<<MockBusJson(now)>>))

TestNext ==
    \/ TestTick
    \/ RecordBuses
    \/ LoopEnter
    \/ LoopExit
    \/ DownloadMock
    \/ ParseBusRecords
    \/ EndIteration
    \/ Return

TestSpec == TestInit /\ [][TestNext]_vars

\* ------------------------------------------- calls of analysis functions

\* No session is running: the session's variables keep their initial values
\* while a function of myutils.py is called on its own.
NoSession ==
    /\ now = 0
    /\ download_duration = 0
    /\ time_of_start = 0
    /\ time_of_end = 0
    /\ stats = BusRecordingStatistics(0, 0, 0, DefaultTime, DefaultTime)
    /\ bus_recs = <<>>
    /\ last_bus_recs = EmptyDict
    /\ n_requests = 0
    /\ response = NoResponse
    /\ cur_bus_recs = <<>>
    /\ cur_stats = BusRecordingStatistics(0, 0, 0, DefaultTime, DefaultTime)
    /\ returned = <<>>
    /\ failure = "none"
    /\ n_iterations = 0
    /\ n_malformed = 0
    /\ n_fetches = 0
    /\ max_seen = [v \in Vehicles |-> -1]
    /\ traffic = 0
    /\ time_of_exit = -1

session_vars == <<now, download_duration, time_of_start, time_of_end, stats,
                  bus_recs, last_bus_recs, n_requests, response,
                  cur_bus_recs, cur_stats, returned, failure, n_iterations,
                  n_malformed, n_fetches, max_seen, traffic, time_of_exit>>

\* The statistics values a caller can build: __init__ takes any integers.
StatisticsValues ==
    [n_requests : -1..MaxCount,
     n_successful_requests : -1..MaxCount,
     n_records : -1..MaxCount,
     processing_start_time : 0..1,
     processing_end_time : 0..1]

\* Statistics that differ in their counters only, none of them negative.
CounterValues ==
    [n_requests : 0..MaxCount,
     n_successful_requests : 0..MaxCount,
     n_records : 0..MaxCount,
     processing_start_time : {0},
     processing_end_time : {1}]

\* a.add_requests_and_records_info(b) is about to be called, or the two
\* groupings of a merge of a, b and c are.
MergeInit ==
    /\ NoSession
    /\ NoDownload
    /\ fn_result = <<>>
    /\ \/ /\ pc = "call_merge"
          /\ fn_args \in StatisticsValues \X StatisticsValues
       \/ /\ pc = "call_merge3"
          /\ fn_args \in CounterValues \X CounterValues \X CounterValues

\* Mutant of Merge: the sums are stored into self, which is returned.
Merge_in_place ==
    /\ pc = "call_merge"
    /\ fn_result' = <<add_requests_and_records_info(fn_args[1], fn_args[2])>>
    /\ fn_args' = <<add_requests_and_records_info(fn_args[1], fn_args[2]),
                    fn_args[2]>>
    /\ pc' = "ret_merge"
    /\ UNCHANGED <<session_vars, departure_vars>>

\* a.add_requests_and_records_info(b): the method reads its two arguments
\* and builds a new object.
Merge ==
    /\ pc = "call_merge"
    /\ fn_result' = <<add_requests_and_records_info(fn_args[1], fn_args[2])>>
    /\ fn_args' = fn_args
    /\ pc' = "ret_merge"
    /\ UNCHANGED <<session_vars, departure_vars>>

\* (a.merge(b)).merge(c) and a.merge(b.merge(c)), side by side.
Merge3 ==
    /\ pc = "call_merge3"
    /\ fn_result' =
           <<add_requests_and_records_info(
                 add_requests_and_records_info(fn_args[1], fn_args[2]),
                 fn_args[3]),
             add_requests_and_records_info(
                 fn_args[1],
                 add_requests_and_records_info(fn_args[2], fn_args[3]))>>
    /\ fn_args' = fn_args
    /\ pc' = "ret_merge3"
    /\ UNCHANGED <<session_vars, departure_vars>>

MergeNext ==
    \/ Merge
    \/ Merge3

\* The merge called on its own.
MergeSpec == MergeInit /\ [][MergeNext]_vars

\* The session, or the merge called on its own.
StatsInit ==
    \/ Init
    \/ MergeInit

StatsNext ==
    \/ Tick
    \/ RecordBuses
    \/ LoopEnter
    \/ LoopExit
    \/ DownloadJsonFails
    \/ DownloadValid
    \/ DownloadResultNotList
    \/ DownloadNoResult
    \/ ParseBusRecords
    \/ ParseBusRecordsFails
    \/ EndIteration
    \/ Return
    \/ Merge
    \/ Merge3

StatsSpec == StatsInit /\ [][StatsNext]_vars

\* ------------------------------------------------------------ get_speeds

\* Every sequence over S of at most n elements.
SeqsUpTo(S, n) == UNION {[1..k -> S] : k \in 0..n}

\* A speed: the quotient num / den of a distance in metres and a time in
\* seconds, kept exact; None where get_speeds has no speed.
Quotient(num, den) == [defined |-> TRUE, num |-> num, den |-> den]
None == [defined |-> FALSE, num |-> 0, den |-> 1]

\* Mutant of get_speed_raises: the division by 0.0 gives a value, as IEEE
\* arithmetic would.
get_speed_raises_never(rec1, rec2) == FALSE

\* get_speed: dist / t_delta is a division of two Python floats, which
\* raises ZeroDivisionError when t_delta is 0.0.
get_speed_raises(rec1, rec2) == rec2.time - rec1.time = 0

\* Mutant of get_speed: the time difference taken the other way round.
get_speed_backwards(rec1, rec2) ==
    LET dist == distance_to(rec1.pos, rec2.pos)
        t_delta == rec1.time - rec2.time
    IN  Quotient(dist, t_delta)

\* get_speed, when it does not raise.
get_speed(rec1, rec2) ==
    LET dist == distance_to(rec1.pos, rec2.pos)
        t_delta == rec2.time - rec1.time
    IN  Quotient(dist, t_delta)

\* get_speeds raises what get_speed raises: nothing catches it.
get_speeds_raises(_bus_recs) ==
    \E _i \in 2..Len(_bus_recs) :
        /\ _bus_recs[_i - 1].veh = _bus_recs[_i].veh
        /\ get_speed_raises(_bus_recs[_i - 1], _bus_recs[_i])

\* The for loop of get_speeds from index _i (counted from 0 as in the code)
\* on, _speeds being the list so far.
RECURSIVE get_speeds_loop(_, _, _)
get_speeds_loop(_bus_recs, _i, _speeds) ==
    IF _i >= Len(_bus_recs) THEN _speeds
    ELSE LET prev == _bus_recs[_i]
             rec == _bus_recs[_i + 1]
         IN  get_speeds_loop(
                 _bus_recs, _i + 1,
                 Append(_speeds, IF prev.veh = rec.veh
                                 THEN get_speed(prev, rec)
                                 ELSE None))

\* get_speeds, when it does not raise.
get_speeds(_bus_recs) == get_speeds_loop(_bus_recs, 1, <<None>>)

\* The records get_speeds is called on: two places 60 m apart.
SpeedRecords ==
    {BusRecord(veh, 100 + veh, 10 + veh, time, Position(lat, 0)) :
        veh \in Vehicles, time \in Times, lat \in 0..1}

GetSpeedsInit ==
    /\ NoSession
    /\ NoDownload
    /\ pc = "call_get_speeds"
    /\ fn_args \in {<<recs>> : recs \in SeqsUpTo(SpeedRecords, MaxRecs)}
    /\ fn_result = <<>>

\* get_speeds(_bus_recs) returns its list.
GetSpeeds ==
    /\ pc = "call_get_speeds"
    /\ ~get_speeds_raises(fn_args[1])
    /\ fn_result' = <<get_speeds(fn_args[1])>>
    /\ pc' = "ret_get_speeds"
    /\ UNCHANGED <<fn_args, session_vars, departure_vars>>

\* get_speeds(_bus_recs) is left by the exception of a division.
GetSpeedsRaises ==
    /\ pc = "call_get_speeds"
    /\ get_speeds_raises(fn_args[1])
    /\ failure' = "ZeroDivisionError"
    /\ pc' = "raised_get_speeds"
    /\ UNCHANGED <<now, download_duration, time_of_start, time_of_end, stats,
                   bus_recs, last_bus_recs, n_requests, response,
                   cur_bus_recs, cur_stats, returned, n_iterations,
                   n_malformed, n_fetches, max_seen, traffic, time_of_exit,
                   fn_args, fn_result, departure_vars>>

GetSpeedsNext ==
    \/ GetSpeeds
    \/ GetSpeedsRaises

GetSpeedsSpec == GetSpeedsInit /\ [][GetSpeedsNext]_vars

\* --------------------------------------------- get_positions_of_interest

\* What BusRecord.__eq__ and __hash__ read: the key of a record in a set.
Identity(rec) == <<rec.veh, rec.time>>

\* Mutant of in_vicinity: the radius is 60 m.
in_vicinity_narrow(rec, rec2) == distance_to(rec.pos, rec2.pos) < 60

\* rec.get_position().distance_to(rec2.get_position()) < 100
in_vicinity(rec, rec2) == distance_to(rec.pos, rec2.pos) < 100

\* Mutant of vicinity_loop: a record that joins is counted but not marked
\* as visited.
RECURSIVE vicinity_loop_keeps_unvisited(_, _, _, _, _)
vicinity_loop_keeps_unvisited(bus_speeds, j, rec, visited, n) ==
    IF j > Len(bus_speeds) THEN [visited |-> visited, n |-> n]
    ELSE LET rec2 == bus_speeds[j][1]
         IN  IF Identity(rec2) \notin visited /\ in_vicinity(rec, rec2)
             THEN vicinity_loop_keeps_unvisited(bus_speeds, j + 1, rec,
                                                visited, n + 1)
             ELSE vicinity_loop_keeps_unvisited(bus_speeds, j + 1, rec,
                                                visited, n)

\* The inner for loop of get_positions_of_interest from item j on: visited
\* and n_buses_in_vicinity when it ends.
RECURSIVE vicinity_loop(_, _, _, _, _)
vicinity_loop(bus_speeds, j, rec, visited, n) ==
    IF j > Len(bus_speeds) THEN [visited |-> visited, n |-> n]
    ELSE LET rec2 == bus_speeds[j][1]
         IN  IF Identity(rec2) \notin visited /\ in_vicinity(rec, rec2)
             THEN vicinity_loop(bus_speeds, j + 1, rec,
                                visited \cup {Identity(rec2)}, n + 1)
             ELSE vicinity_loop(bus_speeds, j + 1, rec, visited, n)

\* Mutant of positions_loop: a record already visited is a seed again.
RECURSIVE positions_loop_revisits(_, _, _, _)
positions_loop_revisits(bus_speeds, i, visited, pos_speeds) ==
    IF i > Len(bus_speeds) THEN pos_speeds
    ELSE LET rec == bus_speeds[i][1]
             v == vicinity_loop(bus_speeds, 1, rec,
                                visited \cup {Identity(rec)}, 1)
         IN  positions_loop_revisits(bus_speeds, i + 1, v.visited,
                                     Append(pos_speeds, <<rec.pos, v.n>>))

\* The outer for loop of get_positions_of_interest from item i on.
RECURSIVE positions_loop(_, _, _, _)
positions_loop(bus_speeds, i, visited, pos_speeds) ==
    IF i > Len(bus_speeds) THEN pos_speeds
    ELSE LET rec == bus_speeds[i][1]
         IN  IF Identity(rec) \in visited
             THEN positions_loop(bus_speeds, i + 1, visited, pos_speeds)
             ELSE LET v == vicinity_loop(bus_speeds, 1, rec,
                                         visited \cup {Identity(rec)}, 1)
                  IN  positions_loop(bus_speeds, i + 1, v.visited,
                                     Append(pos_speeds, <<rec.pos, v.n>>))

get_positions_of_interest(bus_speeds) ==
    positions_loop(bus_speeds, 1, {}, <<>>)

\* The records get_positions_of_interest is called on: three places in a
\* row, 60 m from one to the next.
PlaceRecords ==
    {BusRecord(veh, 100 + veh, 10 + veh, time, Position(lat, 0)) :
        veh \in Vehicles, time \in 0..1, lat \in 0..2}

\* bus_speeds: the records, each with a speed the function never reads.
WithSpeeds(recs) == [i \in 1..Len(recs) |-> <<recs[i], None>>]

GetPositionsInit ==
    /\ NoSession
    /\ NoDownload
    /\ pc = "call_get_positions_of_interest"
    /\ fn_args \in {<<WithSpeeds(recs)>> :
                        recs \in SeqsUpTo(PlaceRecords, MaxRecs)}
    /\ fn_result = <<>>

GetPositionsOfInterest ==
    /\ pc = "call_get_positions_of_interest"
    /\ fn_result' = <<get_positions_of_interest(fn_args[1])>>
    /\ pc' = "ret_get_positions_of_interest"
    /\ UNCHANGED <<fn_args, session_vars, departure_vars>>

GetPositionsNext == GetPositionsOfInterest

GetPositionsSpec == GetPositionsInit /\ [][GetPositionsNext]_vars

\* -------------------------------------------------- print_bus_speed_info

\* a < b for two speeds with positive denominators.
less_than(a, b) == a.num * b.den < b.num * a.den

\* The for loop of print_bus_speed_info from item i on: the set
\* speeding_bus_vehicle_nums when it ends.
RECURSIVE speeding_loop(_, _, _, _, _)
speeding_loop(bus_speeds, i, min_speed, max_speed, nums) ==
    IF i > Len(bus_speeds) THEN nums
    ELSE LET _rec == bus_speeds[i][1]
             speed == bus_speeds[i][2]
         IN  IF /\ _rec.veh \notin nums
                /\ speed.defined
                /\ less_than(min_speed, speed)
                /\ (~max_speed.defined \/ less_than(speed, max_speed))
             THEN speeding_loop(bus_speeds, i + 1, min_speed, max_speed,
                                nums \cup {_rec.veh})
             ELSE speeding_loop(bus_speeds, i + 1, min_speed, max_speed,
                                nums)

\* Mutant of print_bus_speed_info: the percentage is taken over the samples
\* instead of the vehicles.
print_bus_speed_info_over_samples(bus_speeds, min_speed, max_speed) ==
    IF bus_speeds = <<>>
    THEN [printed |-> "no_buses", n_speeding |-> 0, n_buses |-> 0]
    ELSE [printed |-> "percentage",
          n_speeding |-> Cardinality(speeding_loop(bus_speeds, 1, min_speed,
                                                   max_speed, {})),
          n_buses |-> Len(bus_speeds)]

\* print_bus_speed_info: what it prints, the percentage as the count
\* _n_speeding_buses and the number n_buses it is divided by.  speed_type
\* only words the message.
print_bus_speed_info(bus_speeds, min_speed, max_speed) ==
    IF bus_speeds = <<>>
    THEN [printed |-> "no_buses", n_speeding |-> 0, n_buses |-> 0]
    ELSE [printed |-> "percentage",
          n_speeding |-> Cardinality(speeding_loop(bus_speeds, 1, min_speed,
                                                   max_speed, {})),
          n_buses |-> Cardinality({bus_speeds[i][1].veh :
                                      i \in 1..Len(bus_speeds)})]

\* The samples print_bus_speed_info is called on, for the band from 10 m/s
\* to 20 m/s: no speed, 5, 10, 15 and 20 m/s.
SpeedSamples ==
    {<<BusRecord(veh, 100 + veh, 10 + veh, 0, Position(0, 0)), speed>> :
        veh \in Vehicles,
        speed \in {None, Quotient(5, 1), Quotient(10, 1), Quotient(30, 2),
                   Quotient(20, 1)}}

PrintSpeedInfoInit ==
    /\ NoSession
    /\ NoDownload
    /\ pc = "call_print_bus_speed_info"
    /\ fn_args \in {<<samples, Quotient(10, 1), max_speed>> :
                        samples \in SeqsUpTo(SpeedSamples, MaxRecs),
                        max_speed \in {None, Quotient(20, 1)}}
    /\ fn_result = <<>>

PrintBusSpeedInfo ==
    /\ pc = "call_print_bus_speed_info"
    /\ fn_result' = <<print_bus_speed_info(fn_args[1], fn_args[2],
                                           fn_args[3])>>
    /\ pc' = "ret_print_bus_speed_info"
    /\ UNCHANGED <<fn_args, session_vars, departure_vars>>

PrintSpeedInfoNext == PrintBusSpeedInfo

PrintSpeedInfoSpec == PrintSpeedInfoInit /\ [][PrintSpeedInfoNext]_vars

\* ------------------------------------------------------ download_bus_stops

\* A text of the API: the number it spells, or no number at all.
Text(numeric, number) == [numeric |-> numeric, number |-> number]

\* float(text) raises ValueError when the text spells no number.
float_raises(text) == ~text.numeric

\* float(text), when it does not raise.
float(text) == text.number

\* BusStop.__init__.
BusStop(bus_stop_id, bus_stop_number, pos) ==
    [bus_stop_id |-> bus_stop_id, bus_stop_number |-> bus_stop_number,
     pos |-> pos]

\* One entry of the bus stop response: the list under "values", each item
\* with its "value".  Items 0 and 1 are the id and the number of the stop,
\* items 2 and 3 the name and the street, items 4 and 5 the latitude and the
\* longitude as texts.
BusStopJson(id, number, lat, lon) ==
    [values |-> <<[value |-> id], [value |-> number],
                  [value |-> Text(FALSE, 0)], [value |-> Text(TRUE, 7)],
                  [value |-> lat], [value |-> lon]>>]

BusStopJsons ==
    {BusStopJson(id, number, lat, lon) :
        id \in {1001, 1002}, number \in {1, 2},
        lat \in {Text(TRUE, 0), Text(TRUE, 1), Text(FALSE, 0)},
        lon \in {Text(TRUE, 0), Text(TRUE, 1)}}

\* Mutant of get_bus_stop_from_json: latitude and longitude change places.
get_bus_stop_from_json_swaps(bus_stop) ==
    LET arr == bus_stop.values
    IN  BusStop(arr[1].value, arr[2].value,
                Position(float(arr[6].value), float(arr[5].value)))

\* get_bus_stop_from_json, when it does not raise; arr[k] of the code is
\* arr[k + 1] here.
get_bus_stop_from_json(bus_stop) ==
    LET arr == bus_stop.values
    IN  BusStop(arr[1].value, arr[2].value,
                Position(float(arr[5].value), float(arr[6].value)))

get_bus_stop_from_json_raises(bus_stop) ==
    LET arr == bus_stop.values
    IN  float_raises(arr[5].value) \/ float_raises(arr[6].value)

\* The comprehension of download_bus_stops over bus_stops_json['result'].
RECURSIVE bus_stops_of(_)
bus_stops_of(result) ==
    IF result = <<>> THEN <<>>
    ELSE <<get_bus_stop_from_json(Head(result))>>
             \o bus_stops_of(Tail(result))

\* download_bus_stops has the valid response that _download_valid_json
\* returned.
BusStopsInit ==
    /\ NoSession
    /\ NoDownload
    /\ pc = "call_download_bus_stops"
    /\ fn_args \in {<<ValidResponse(result)>> :
                        result \in SeqsUpTo(BusStopJsons, MaxRecs)}
    /\ fn_result = <<>>

\* download_bus_stops returns its list.
DownloadBusStops ==
    /\ pc = "call_download_bus_stops"
    /\ \A i \in 1..Len(fn_args[1].result) :
           ~get_bus_stop_from_json_raises(fn_args[1].result[i])
    /\ fn_result' = <<bus_stops_of(fn_args[1].result)>>
    /\ pc' = "ret_download_bus_stops"
    /\ UNCHANGED <<fn_args, session_vars, departure_vars>>

\* download_bus_stops is left by the ValueError of a float().
DownloadBusStopsRaises ==
    /\ pc = "call_download_bus_stops"
    /\ \E i \in 1..Len(fn_args[1].result) :
           get_bus_stop_from_json_raises(fn_args[1].result[i])
    /\ failure' = "ValueError"
    /\ pc' = "raised_download_bus_stops"
    /\ UNCHANGED <<now, download_duration, time_of_start, time_of_end, stats,
                   bus_recs, last_bus_recs, n_requests, response,
                   cur_bus_recs, cur_stats, returned, n_iterations,
                   n_malformed, n_fetches, max_seen, traffic, time_of_exit,
                   fn_args, fn_result, departure_vars>>

BusStopsNext ==
    \/ DownloadBusStops
    \/ DownloadBusStopsRaises

BusStopsSpec == BusStopsInit /\ [][BusStopsNext]_vars

\* ------------------------------------------------------ download_departures

\* The departures of one response of _download_departures_for_line, n of
\* them, which share the bus stop and the line; a list of departures is a
\* list of such runs, none of them of 0 departures.
Departures(bus_stop_id, bus_stop_number, line, n) ==
    [bus_stop_id |-> bus_stop_id, bus_stop_number |-> bus_stop_number,
     line |-> line, n |-> n]

\* The numbers of departures in a response: none, half of what the buffer
\* may hold, one more than the buffer may hold.
DepartureCounts == {0, 5000, 10001}

\* The bus lines a response of _download_bus_lines names, k of them.
BusLines(k) == [j \in 1..k |-> 100 + j]

\* len(departures)
RECURSIVE len(_)
len(_departures) ==
    IF _departures = <<>> THEN 0
    ELSE Head(_departures).n + len(Tail(_departures))

\* departures += cur_departures
extend(_departures, cur_departures) ==
    IF cur_departures.n = 0 THEN _departures
    ELSE Append(_departures, cur_departures)

\* serialize of every departure: its fields as a list, the runs kept.
serialize_list(objs) ==
    [k \in 1..Len(objs) |-> <<objs[k].bus_stop_id, objs[k].bus_stop_number,
                              objs[k].line, objs[k].n>>]

\* open(file_name, 'w') and writerows: the file is created or replaced.
save_to_csv(data, file_name) ==
    [id \in DOMAIN files \cup {file_name} |->
        IF id = file_name THEN data ELSE files[id]]

\* The folder after save_departures_to_file.
save_departures_to_file(_departures, _file_id) ==
    save_to_csv(serialize_list(_departures), _file_id)

\* The bus stops download_departures is called on.
SomeBusStops ==
    {BusStop(id, 1, Position(0, 0)) : id \in {1001, 1002}}

DownloadDeparturesInit ==
    /\ NoSession
    /\ NoDownload
    /\ pc = "call_download_departures"
    /\ fn_args \in {<<bus_stops>> :
                        bus_stops \in SeqsUpTo(SomeBusStops, MaxStops)}
    /\ fn_result = <<>>

\* departures = [], file_id = 1, n_departures = 0
DownloadDepartures ==
    /\ pc = "call_download_departures"
    /\ departures' = <<>>
    /\ file_id' = 1
    /\ n_departures' = 0
    /\ i_bus_stop' = 1
    /\ pc' = "for_bus_stop"
    /\ UNCHANGED <<lines, files, downloaded, writes, fn_args, fn_result,
                   session_vars>>

\* for bus_stop in bus_stops: lines = self._download_bus_lines(bus_stop)
DownloadBusLines ==
    /\ pc = "for_bus_stop"
    /\ i_bus_stop <= Len(fn_args[1])
    /\ \E k \in 0..MaxLines : lines' = BusLines(k)
    /\ pc' = "for_line"
    /\ UNCHANGED <<departures, file_id, n_departures, i_bus_stop, files,
                   downloaded, writes, fn_args, fn_result, session_vars>>

\* for line in lines: the departures of the line are downloaded and added
\* to departures and counted.
DownloadDeparturesForLine ==
    /\ pc = "for_line"
    /\ lines # <<>>
    /\ \E n \in DepartureCounts :
          LET bus_stop == fn_args[1][i_bus_stop]
              cur_departures == Departures(bus_stop.bus_stop_id,
                                           bus_stop.bus_stop_number,
                                           Head(lines), n)
          IN  /\ departures' = extend(departures, cur_departures)
              /\ n_departures' = n_departures + n
              /\ downloaded' = extend(downloaded, cur_departures)
    /\ lines' = Tail(lines)
    /\ pc' = "appended"
    /\ UNCHANGED <<file_id, i_bus_stop, files, writes, fn_args, fn_result,
                   session_vars>>

\* Mutant of SaveManyDepartures: the departures saved stay in the buffer.
SaveManyDepartures_keeps_buffer ==
    /\ pc = "appended"
    /\ len(departures) > 10000
    /\ files' = save_departures_to_file(departures, file_id)
    /\ writes' = Append(writes, file_id)
    /\ file_id' = file_id + 1
    /\ pc' = "for_line"
    /\ UNCHANGED <<departures, n_departures, i_bus_stop, lines, downloaded,
                   fn_args, fn_result, session_vars>>

\* if len(departures) > 10000: the departures are saved to the file of
\* file_id, file_id moves on and the buffer is cleared.
SaveManyDepartures ==
    /\ pc = "appended"
    /\ len(departures) > 10000
    /\ files' = save_departures_to_file(departures, file_id)
    /\ writes' = Append(writes, file_id)
    /\ file_id' = file_id + 1
    /\ departures' = <<>>
    /\ pc' = "for_line"
    /\ UNCHANGED <<n_departures, i_bus_stop, lines, downloaded, fn_args,
                   fn_result, session_vars>>

\* The same test when it fails: the departures stay in the buffer.
KeepDepartures ==
    /\ pc = "appended"
    /\ ~(len(departures) > 10000)
    /\ pc' = "for_line"
    /\ UNCHANGED <<departure_vars, fn_args, fn_result, session_vars>>

\* The lines of the bus stop are done: logging.info, then the next bus stop.
NextBusStop ==
    /\ pc = "for_line"
    /\ lines = <<>>
    /\ i_bus_stop' = i_bus_stop + 1
    /\ pc' = "for_bus_stop"
    /\ UNCHANGED <<departures, file_id, n_departures, lines, files,
                   downloaded, writes, fn_args, fn_result, session_vars>>

\* After the last bus stop, if departures: they are saved to the file of
\* file_id, and download_departures returns.
SaveLastDepartures ==
    /\ pc = "for_bus_stop"
    /\ i_bus_stop > Len(fn_args[1])
    /\ departures # <<>>
    /\ files' = save_departures_to_file(departures, file_id)
    /\ writes' = Append(writes, file_id)
    /\ pc' = "ret_download_departures"
    /\ UNCHANGED <<departures, file_id, n_departures, i_bus_stop, lines,
                   downloaded, fn_args, fn_result, session_vars>>

\* After the last bus stop with no departures in the buffer:
\* download_departures returns.
ReturnFromDownloadDepartures ==
    /\ pc = "for_bus_stop"
    /\ i_bus_stop > Len(fn_args[1])
    /\ departures = <<>>
    /\ pc' = "ret_download_departures"
    /\ UNCHANGED <<departure_vars, fn_args, fn_result, session_vars>>

\* A fetch of _download_bus_lines or of _download_departures_for_line
\* fails: the exception of _download_json leaves download_departures.
DownloadDeparturesRaises ==
    /\ \/ pc = "for_bus_stop" /\ i_bus_stop <= Len(fn_args[1])
       \/ pc = "for_line" /\ lines # <<>>
    /\ failure' = "transport"
    /\ pc' = "raised_download_departures"
    /\ UNCHANGED <<now, download_duration, time_of_start, time_of_end, stats,
                   bus_recs, last_bus_recs, n_requests, response,
                   cur_bus_recs, cur_stats, returned, n_iterations,
                   n_malformed, n_fetches, max_seen, traffic, time_of_exit,
                   fn_args, fn_result, departure_vars>>

DownloadDeparturesNext ==
    \/ DownloadDepartures
    \/ DownloadBusLines
    \/ DownloadDeparturesForLine
    \/ SaveManyDepartures
    \/ KeepDepartures
    \/ NextBusStop
    \/ SaveLastDepartures
    \/ ReturnFromDownloadDepartures
    \/ DownloadDeparturesRaises

DownloadDeparturesSpec ==
    DownloadDeparturesInit /\ [][DownloadDeparturesNext]_vars

\* ------------------------------------------------- the validity/dedup rule

\* The comprehension just before it handles cur_bus_recs[i]: the dict, the
\* records accepted in the session so far, the greatest timestamps seen.
DictBefore(i) ==
    valid_buses_of(last_bus_recs, SubSeq(cur_bus_recs, 1, i - 1),
                   time_of_start).last
AcceptedBefore(i) ==
    bus_recs \o valid_buses_of(last_bus_recs, SubSeq(cur_bus_recs, 1, i - 1),
                               time_of_start).valid
SeenBefore(i) == max_seen_after(max_seen, SubSeq(cur_bus_recs, 1, i - 1))
Verdict(i) == is_record_valid(DictBefore(i), cur_bus_recs[i], time_of_start)

\* Rule (a) as the specification words it: no record accepted before in
\* this session for the vehicle has a timestamp >= the record's.
NoAcceptedAtOrAfter(accepted, rec) ==
    \A k \in 1..Len(accepted) :
        accepted[k].veh = rec.veh => accepted[k].time < rec.time

\* Rule (a) as the code tests it, on the dict.
PassesDictTest(last, rec) ==
    rec.veh \notin DOMAIN last \/ last[rec.veh] < rec.time

\* C1: every record handed to _is_record_valid is accepted if and only if
\* (a) no record accepted earlier in the session for its vehicle has a
\* timestamp >= its own and (b) its timestamp is strictly after the session
\* start.
C1_AcceptedIffNewAndInWindow ==
    pc = "filter" =>
        \A i \in 1..Len(cur_bus_recs) :
            Verdict(i).valid <=>
                /\ NoAcceptedAtOrAfter(AcceptedBefore(i), cur_bus_recs[i])
                /\ cur_bus_recs[i].time > time_of_start

\* A later snapshot offers, for a vehicle that has an accepted record, an
\* entry inside the window with an equal or earlier timestamp, which is
\* rejected.
C1_Witness ==
    /\ pc = "filter"
    /\ n_iterations >= 1
    /\ \E i \in 1..Len(cur_bus_recs) :
          /\ cur_bus_recs[i].time > time_of_start
          /\ ~NoAcceptedAtOrAfter(bus_recs, cur_bus_recs[i])
          /\ ~Verdict(i).valid

\* C2: at every point of a session the accepted records of one vehicle have
\* strictly increasing timestamps, in the list kept by the loop and in the
\* list returned.
StrictlyIncreasingPerVehicle(recs) ==
    \A i, j \in 1..Len(recs) :
        (i < j /\ recs[i].veh = recs[j].veh) => recs[i].time < recs[j].time

C2_StrictlyIncreasingPerVehicle ==
    /\ StrictlyIncreasingPerVehicle(bus_recs)
    /\ pc = "filter" =>
          \A i \in 1..(Len(cur_bus_recs) + 1) :
              StrictlyIncreasingPerVehicle(AcceptedBefore(i))
    /\ pc = "done" => StrictlyIncreasingPerVehicle(returned[1].bus_recs)

\* One snapshot held the same vehicle twice and both entries were accepted.
C2_Witness ==
    /\ n_iterations = 1
    /\ \E i, j \in 1..Len(bus_recs) : i < j /\ bus_recs[i].veh = bus_recs[j].veh

\* C3: the dict is updated before the window is tested.  A record that
\* passes the dict test but is not after the session start is rejected and
\* still becomes the vehicle's last-seen timestamp; any record whose
\* timestamp is not above one already seen for its vehicle fails the dict
\* test; and a record after the session start and above every timestamp seen
\* for its vehicle is accepted.
C3_DictUpdatedBeforeWindowTest ==
    pc = "filter" =>
        \A i \in 1..Len(cur_bus_recs) :
            LET rec == cur_bus_recs[i]
                last == DictBefore(i)
                seen == SeenBefore(i)
                r == Verdict(i)
            IN  /\ (PassesDictTest(last, rec) /\ rec.time <= time_of_start)
                       => /\ ~r.valid
                          /\ rec.veh \in DOMAIN r.last
                          /\ r.last[rec.veh] = rec.time
                /\ seen[rec.veh] >= rec.time => ~PassesDictTest(last, rec)
                /\ (rec.time > time_of_start /\ rec.time > seen[rec.veh])
                       => r.valid

\* A vehicle of which only records from before the session start were seen
\* now sends a record from after the start.
C3_Witness ==
    /\ pc = "filter"
    /\ \E i \in 1..Len(cur_bus_recs) :
          LET rec == cur_bus_recs[i]
          IN  /\ SeenBefore(i)[rec.veh] >= 0
              /\ SeenBefore(i)[rec.veh] <= time_of_start
              /\ rec.time > time_of_start
              /\ Verdict(i).valid

\* ------------------------------------------------ fetching and its failures

\* C4: every fetch that returns a response, valid or malformed, adds one to
\* the request count, and every completed iteration adds one to the count of
\* successful requests: between iterations request_count = iterations +
\* malformed responses and successful_request_count = iterations; a response
\* whose result is not a list is followed by another attempt.
C4_RequestCounts ==
    /\ [](/\ stats.n_requests + n_requests
                 = n_fetches - (IF failure = "transport" THEN 1 ELSE 0)
          /\ pc \in {"loop", "after_loop", "done"} =>
                /\ stats.n_requests = n_iterations + n_malformed
                /\ stats.n_successful_requests = n_iterations
          /\ pc = "done" =>
                /\ returned[1].stats.n_requests = n_iterations + n_malformed
                /\ returned[1].stats.n_successful_requests = n_iterations)
    /\ [][(n_malformed' # n_malformed /\ response' = ResultNotList) =>
              pc' = "request" /\ failure' = "none"]_vars

\* An iteration has completed after a malformed response.
C4_Witness ==
    /\ pc = "loop"
    /\ n_iterations >= 1
    /\ n_malformed >= 1

\* C5: every response that is not an object with a result list, the one
\* without a result field included, is logged and retried: the retry loop
\* is still running after it and no error has left the session.
C5_MalformedResponseIsRetried ==
    [][(n_malformed' # n_malformed
        /\ response'.kind \in {"result_not_list", "no_result"}) =>
           /\ pc' = "request"
           /\ failure' = "none"
           /\ n_requests' = n_requests + 1]_vars

\* C6: a transport failure ends the session at once with an error: nothing
\* is returned, and from then on no fetch is issued and nothing changes.
C6_TransportFailureIsFatal ==
    /\ [](failure = "transport" => pc = "error" /\ returned = <<>>)
    /\ [][pc = "error" => pc' = "error" /\ n_fetches' = n_fetches
                          /\ returned' = returned]_vars

\* A fetch failed in the second iteration of a session.
C6_Witness ==
    /\ failure = "transport"
    /\ n_iterations >= 1

\* --------------------------------------------------------------- parsing

\* The records of the entries of a snapshot that parse, in snapshot order.
RECURSIVE OkRecordsOf(_)
OkRecordsOf(snapshot) ==
    IF snapshot = <<>> THEN <<>>
    ELSE (IF Head(snapshot).kind = "ok"
          THEN <<get_bus_record_from_json(Head(snapshot))>>
          ELSE <<>>) \o OkRecordsOf(Tail(snapshot))

\* C7: an entry of a valid snapshot that fails to parse, whatever the field
\* that is unusable, is dropped alone: the other entries reach the validity
\* check in their order and the iteration goes on.
C7_BadEntryDroppedAlone ==
    [][pc = "parse" =>
          /\ pc' = "filter"
          /\ failure' = "none"
          /\ cur_bus_recs' = OkRecordsOf(response.result)]_vars

\* ------------------------------------------------------------ the deadline

\* C8: the clock is compared with time_of_end only at the top of the loop.
\* An iteration starts only while now < time_of_end, the loop is left only
\* from its top and only once now >= time_of_end, and an iteration in flight
\* is completed whatever the clock says: its records are appended and its
\* counts merged.
C8_DeadlineCheckedAtLoopTopOnly ==
    [][/\ (pc = "loop" /\ pc' = "request") => now < time_of_end
       /\ pc' = "after_loop" => (pc \in {"loop", "after_loop"}
                                 /\ now >= time_of_end)
       /\ (pc = "filter" /\ pc' # "filter") =>
             /\ pc' = "loop"
             /\ bus_recs' = AcceptedBefore(Len(cur_bus_recs) + 1)
             /\ stats'.n_requests = stats.n_requests + n_requests
             /\ stats'.n_successful_requests
                    = stats.n_successful_requests + 1]_vars

\* The end time has passed while an iteration that accepts a record was in
\* flight.
C8_Witness ==
    /\ pc = "filter"
    /\ now >= time_of_end
    /\ \E i \in 1..Len(cur_bus_recs) : Verdict(i).valid

\* C9: when no fetch fails in transport and no call meets an endless run of
\* malformed responses (the answers of the API are bounded by MaxTraffic, the
\* program and the clock keep running: FairSpec), record_buses eventually
\* returns.
C9_SessionReturns ==
    [](failure # "transport") => <>(pc = "done")

\* ------------------------------------------------------------ arrival order

IsPrefix(s, t) == Len(s) <= Len(t) /\ SubSeq(t, 1, Len(s)) = s

\* s can be obtained from t by deleting elements, the order kept.
RECURSIVE IsSubsequence(_, _)
IsSubsequence(s, t) ==
    IF s = <<>> THEN TRUE
    ELSE IF t = <<>> THEN FALSE
    ELSE IF Head(s) = Head(t) THEN IsSubsequence(Tail(s), Tail(t))
    ELSE IsSubsequence(s, Tail(t))

\* C10: the list of accepted records only grows at its end, what an
\* iteration appends is taken from its snapshot in the snapshot's order, and
\* the list is returned as it stands.
C10_ArrivalOrder ==
    [][/\ IsPrefix(bus_recs, bus_recs')
       /\ pc = "filter" =>
             IsSubsequence(SubSeq(bus_recs', Len(bus_recs) + 1,
                                  Len(bus_recs')),
                           cur_bus_recs)
       /\ pc' = "done" => returned'[1].bus_recs = bus_recs]_vars

\* The returned list holds a record of a second iteration after records of
\* a first, and is not sorted by timestamp.
C10_Witness ==
    /\ pc = "done"
    /\ n_iterations = 2
    /\ \E i \in 1..(Len(returned[1].bus_recs) - 1) :
          returned[1].bus_recs[i].time > returned[1].bus_recs[i + 1].time

\* ------------------------------------------------- the returned statistics

\* C11: the statistics record_buses returns carry the counts of every
\* iteration merged (one successful request per iteration, every answered
\* fetch as a request), the session start taken before the loop as the start
\* of the window, a clock reading taken after the loop has exited as its end,
\* and the length of the returned record list as the record count.
C11_ReturnedStatistics ==
    pc = "done" =>
        /\ Len(returned) = 1
        /\ returned[1].bus_recs = bus_recs
        /\ returned[1].stats.n_requests = n_fetches
        /\ returned[1].stats.n_successful_requests = n_iterations
        /\ returned[1].stats.n_records = Len(returned[1].bus_recs)
        /\ returned[1].stats.processing_start_time = time_of_start
        /\ time_of_start = 0
        /\ returned[1].stats.processing_end_time = now
        /\ returned[1].stats.processing_end_time >= time_of_exit
        /\ time_of_exit >= time_of_end

\* A session of two iterations that kept a record returns, the clock having
\* advanced between the loop's exit and the reading of the window's end.
C11_Witness ==
    /\ pc = "done"
    /\ n_iterations >= 2
    /\ n_fetches > n_iterations
    /\ Len(returned[1].bus_recs) >= 1
    /\ returned[1].stats.processing_end_time > time_of_exit

\* The inequalities between the counters of a statistics value.
CountersOrdered(st) ==
    /\ st.n_requests >= st.n_successful_requests
    /\ st.n_successful_requests >= 0
    /\ st.n_records >= 0

\* C12: the running statistics of the loop, the statistics of an iteration
\* and the returned statistics always have
\* n_requests >= n_successful_requests >= 0 and n_records >= 0; and the
\* merge of two statistics that have these inequalities has them too.
C12_CountersOrdered ==
    /\ CountersOrdered(stats)
    /\ CountersOrdered(cur_stats)
    /\ \A i \in 1..Len(returned) : CountersOrdered(returned[i].stats)
    /\ pc = "ret_merge" =>
           (CountersOrdered(fn_args[1]) /\ CountersOrdered(fn_args[2])
                => CountersOrdered(fn_result[1]))

\* The loop has merged the statistics of two iterations, one of which needed
\* a retry, into its running statistics.
C12_Witness ==
    /\ pc = "loop"
    /\ n_iterations = 2
    /\ stats.n_successful_requests = 2
    /\ stats.n_requests > stats.n_successful_requests

\* ------------------------------------------------------------- the merge

\* C13: a.add_requests_and_records_info(b) returns a value whose three
\* counters are the sums of those of a and b, whose window starts where a's
\* starts and ends where b's ends; the call leaves a and b as they were.
C13_MergeSumsAndWindow ==
    /\ [](pc = "ret_merge" =>
             /\ Len(fn_result) = 1
             /\ fn_result[1].n_requests
                    = fn_args[1].n_requests + fn_args[2].n_requests
             /\ fn_result[1].n_successful_requests
                    = fn_args[1].n_successful_requests
                      + fn_args[2].n_successful_requests
             /\ fn_result[1].n_records
                    = fn_args[1].n_records + fn_args[2].n_records
             /\ fn_result[1].processing_start_time
                    = fn_args[1].processing_start_time
             /\ fn_result[1].processing_end_time
                    = fn_args[2].processing_end_time)
    /\ [][pc = "call_merge" => fn_args' = fn_args]_vars

\* A merge of two statistics with different windows and counters that are
\* not zero.
C13_Witness ==
    /\ pc = "ret_merge"
    /\ fn_args[1].processing_start_time # fn_args[2].processing_start_time
    /\ fn_args[1].processing_end_time # fn_args[2].processing_end_time
    /\ fn_args[1].n_requests = 1
    /\ fn_args[2].n_requests = 1
    /\ fn_args[2].n_records = 1
    /\ fn_result[1].n_requests = 2

\* C14: on the three counters the merge is associative:
\* (a merge b) merge c and a merge (b merge c) have the same counters.
C14_MergeAssociative ==
    pc = "ret_merge3" =>
        /\ fn_result[1].n_requests = fn_result[2].n_requests
        /\ fn_result[1].n_successful_requests
               = fn_result[2].n_successful_requests
        /\ fn_result[1].n_records = fn_result[2].n_records

\* Both groupings of three statistics with counters that are not zero have
\* been computed.
C14_Witness ==
    /\ pc = "ret_merge3"
    /\ \A i \in 1..3 : /\ fn_args[i].n_requests > 0
                         /\ fn_args[i].n_successful_requests > 0
                         /\ fn_args[i].n_records > 0
    /\ fn_result[1].n_requests = 3
    /\ fn_result[2].n_requests = 3

\* ------------------------------------------------------------ the speeds

\* The call of get_speeds is over, by a return or by an exception.
GetSpeedsOver == pc \in {"ret_get_speeds", "raised_get_speeds"}

\* Record i and the record before it are of one vehicle and have one time.
ZeroDelta(recs, i) ==
    /\ recs[i - 1].veh = recs[i].veh
    /\ recs[i - 1].time = recs[i].time

\* q is the quotient of n and d.
IsQuotientOf(q, n, d) == q.den # 0 /\ d # 0 /\ q.num * d = n * q.den

\* The list get_speeds returned has no speed at index 1, and at a later
\* index i a speed exactly when records i - 1 and i are of one vehicle, which
\* is then the distance between them over the seconds between them.
SpeedsAsClaimed ==
    LET recs == fn_args[1]
        speeds == fn_result[1]
    IN  /\ Len(speeds) = Len(recs)
        /\ ~speeds[1].defined
        /\ \A i \in 2..Len(recs) :
               /\ speeds[i].defined <=> recs[i - 1].veh = recs[i].veh
               /\ speeds[i].defined =>
                      IsQuotientOf(speeds[i],
                                   distance_to(recs[i - 1].pos, recs[i].pos),
                                   recs[i].time - recs[i - 1].time)

\* C15 as stated: for every non-empty record sequence get_speeds returns
\* the speeds described above.
C15_SpeedsOfEverySequence ==
    (GetSpeedsOver /\ Len(fn_args[1]) >= 1)
        => (pc = "ret_get_speeds" /\ SpeedsAsClaimed)

\* C15 amended: for every non-empty record sequence in which no two
\* consecutive records of one vehicle have the same time get_speeds returns
\* the speeds described above.
C15_SpeedsWhenTimesDiffer ==
    (/\ GetSpeedsOver
     /\ Len(fn_args[1]) >= 1
     /\ \A i \in 2..Len(fn_args[1]) : ~ZeroDelta(fn_args[1], i))
        => (pc = "ret_get_speeds" /\ SpeedsAsClaimed)

\* Speeds were returned for three records: two of one vehicle, 60 m and two
\* seconds apart, then one of another vehicle.
C15_Witness ==
    /\ pc = "ret_get_speeds"
    /\ Len(fn_args[1]) = 3
    /\ fn_args[1][1].veh = fn_args[1][2].veh
    /\ fn_args[1][2].veh # fn_args[1][3].veh
    /\ fn_args[1][2].time - fn_args[1][1].time = 2
    /\ fn_result[1][2].defined
    /\ fn_result[1][2].num = 60
    /\ ~fn_result[1][3].defined

\* C16 as stated: when two consecutive records of one vehicle have the same
\* time, get_speeds is not aborted by an error: it returns, and the speed at
\* that index is the non-finite result of the division.
C16_ZeroDeltaGivesNonFinite ==
    GetSpeedsOver =>
        \A i \in 2..Len(fn_args[1]) :
            ZeroDelta(fn_args[1], i) =>
                /\ pc = "ret_get_speeds"
                /\ fn_result[1][i].defined
                /\ fn_result[1][i].den = 0

\* C16 amended: when two consecutive records of one vehicle have the same
\* time, the division raises ZeroDivisionError, which leaves get_speeds: no
\* list of speeds is returned.
C16_ZeroDeltaRaises ==
    GetSpeedsOver =>
        \A i \in 2..Len(fn_args[1]) :
            ZeroDelta(fn_args[1], i) =>
                /\ pc = "raised_get_speeds"
                /\ failure = "ZeroDivisionError"
                /\ fn_result = <<>>

\* get_speeds was left by the exception: the third record has the vehicle
\* and the time of the second, the first two differ in time.
C16_Witness ==
    /\ pc = "raised_get_speeds"
    /\ Len(fn_args[1]) = 3
    /\ ZeroDelta(fn_args[1], 3)
    /\ fn_args[1][1].veh = fn_args[1][2].veh
    /\ fn_args[1][1].time < fn_args[1][2].time

\* ---------------------------------------------------------- the clusters

\* The identities that join the seed at item s when those in seen are
\* visited: every identity not in seen that some item within 100 m of the
\* seed carries.
Joining(items, s, seen) ==
    {Identity(items[j][1]) : j \in {k \in 1..Len(items) :
        /\ Identity(items[k][1]) \notin seen
        /\ distance_to(items[s][1].pos, items[k][1].pos) < 100}}

\* The clusters from item i on when the identities in seen are visited: an
\* item that is not visited is a seed, and its cluster is itself and what
\* joins it, measured from the seed alone.
RECURSIVE SeedClusters(_, _, _)
SeedClusters(items, i, seen) ==
    IF i > Len(items) THEN <<>>
    ELSE IF Identity(items[i][1]) \in seen
    THEN SeedClusters(items, i + 1, seen)
    ELSE LET own == seen \cup {Identity(items[i][1])}
             members == Joining(items, i, own)
         IN  <<<<items[i][1].pos, 1 + Cardinality(members)>>>>
                 \o SeedClusters(items, i + 1, own \cup members)

\* C17: get_positions_of_interest takes the records in input order; each
\* record not yet visited is a seed, and exactly the other records not yet
\* visited that are less than 100 m from the seed join its cluster (the
\* distance to other members plays no part); the clusters are reported in
\* the order of their seeds, each as (position of the seed, member count).
C17_SingleLinkToSeed ==
    pc = "ret_get_positions_of_interest" =>
        /\ Len(fn_result) = 1
        /\ fn_result[1] = SeedClusters(fn_args[1], 1, {})

\* Three records in a row, 60 m apart, the first at one end: the second
\* joins the first, the third is 120 m from the seed and starts a cluster of
\* its own although it is 60 m from a member.
C17_Witness ==
    /\ pc = "ret_get_positions_of_interest"
    /\ Len(fn_args[1]) = 3
    /\ fn_args[1][1][1].pos = Position(0, 0)
    /\ fn_args[1][2][1].pos = Position(1, 0)
    /\ fn_args[1][3][1].pos = Position(2, 0)
    /\ fn_result[1] = <<<<Position(0, 0), 2>>, <<Position(2, 0), 1>>>>

\* The records of items have pairwise different identities and are all less
\* than 100 m from one another.
DistinctAndClose(items) ==
    \A i, j \in 1..Len(items) :
        /\ i # j => Identity(items[i][1]) # Identity(items[j][1])
        /\ distance_to(items[i][1].pos, items[j][1].pos) < 100

\* C18: for n >= 1 records with pairwise different (vehicle, time) whose
\* positions are all less than 100 m from one another, the result is one
\* cluster, at the position of the first record, of n members.
C18_OneClusterWhenAllClose ==
    (/\ pc = "ret_get_positions_of_interest"
     /\ Len(fn_args[1]) >= 1
     /\ DistinctAndClose(fn_args[1]))
        => fn_result[1] = <<<<fn_args[1][1][1].pos, Len(fn_args[1])>>>>

\* Three different records at two places 60 m apart gave one cluster of 3.
C18_Witness ==
    /\ pc = "ret_get_positions_of_interest"
    /\ Len(fn_args[1]) = 3
    /\ DistinctAndClose(fn_args[1])
    /\ fn_args[1][1][1].pos # fn_args[1][2][1].pos
    /\ fn_result[1] = <<<<fn_args[1][1][1].pos, 3>>>>

\* ------------------------------------------------------- the speed bands

\* The vehicles of samples.
VehiclesOf(samples) == {samples[i][1].veh : i \in 1..Len(samples)}

\* The vehicles with a sample whose speed s is defined and at least
\* min_speed and, when max_speed is given, below it.
VehiclesAtOrAbove(samples, min_speed, max_speed) ==
    {samples[i][1].veh : i \in {k \in 1..Len(samples) :
        /\ samples[k][2].defined
        /\ min_speed.num * samples[k][2].den
               <= samples[k][2].num * min_speed.den
        /\ max_speed.defined =>
               samples[k][2].num * max_speed.den
                   < max_speed.num * samples[k][2].den}}

\* The same with a speed strictly above min_speed.
VehiclesAbove(samples, min_speed, max_speed) ==
    {samples[i][1].veh : i \in {k \in 1..Len(samples) :
        /\ samples[k][2].defined
        /\ min_speed.num * samples[k][2].den
               < samples[k][2].num * min_speed.den
        /\ max_speed.defined =>
               samples[k][2].num * max_speed.den
                   < max_speed.num * samples[k][2].den}}

\* C19 as stated: print_bus_speed_info counts a vehicle exactly when one of
\* its samples has a defined speed s with min_speed <= s and, when max_speed
\* is given, s < max_speed; each vehicle once; the percentage is that count
\* over the number of different vehicles of the input.
C19_BandIncludesLowerBound ==
    (pc = "ret_print_bus_speed_info" /\ fn_args[1] # <<>>) =>
        /\ fn_result[1].n_speeding
               = Cardinality(VehiclesAtOrAbove(fn_args[1], fn_args[2],
                                               fn_args[3]))
        /\ fn_result[1].n_buses = Cardinality(VehiclesOf(fn_args[1]))

\* C19 amended: the same with min_speed < s, the lower bound left out.
C19_BandExcludesLowerBound ==
    (pc = "ret_print_bus_speed_info" /\ fn_args[1] # <<>>) =>
        /\ fn_result[1].printed = "percentage"
        /\ fn_result[1].n_speeding
               = Cardinality(VehiclesAbove(fn_args[1], fn_args[2],
                                           fn_args[3]))
        /\ fn_result[1].n_buses = Cardinality(VehiclesOf(fn_args[1]))

\* Three samples of two vehicles with an upper bound: one vehicle has two
\* samples in the band, the other only a sample at min_speed; one vehicle of
\* two is counted.
C19_Witness ==
    /\ pc = "ret_print_bus_speed_info"
    /\ Len(fn_args[1]) = 3
    /\ fn_args[3].defined
    /\ fn_args[1][1][1].veh = fn_args[1][2][1].veh
    /\ fn_args[1][1][2] = Quotient(30, 2)
    /\ fn_args[1][2][2] = Quotient(30, 2)
    /\ fn_args[1][3][1].veh # fn_args[1][1][1].veh
    /\ fn_args[1][3][2] = Quotient(10, 1)
    /\ fn_result[1].n_speeding = 1
    /\ fn_result[1].n_buses = 2

\* ------------------------------------------------ the session of the test

\* The record the test expects: the vehicle's number, line, brigade and
\* position as the mocked entry has them.
IsMockRecord(rec) ==
    /\ rec.veh = MockBusJson(0).veh
    /\ rec.line = MockBusJson(0).lines
    /\ rec.brigade = MockBusJson(0).brigade
    /\ rec.pos.lat = MockBusJson(0).lat
    /\ rec.pos.lon = MockBusJson(0).lon

\* C20: a session of positive duration in which every fetch gives
\* a valid snapshot of one entry of the vehicle, timed at the clock rendered
\* to whole seconds, returns a record list that is not empty and whose first
\* record has the vehicle's number, line, brigade and position.
C20_MockSessionReturnsRecord ==
    (pc = "done" /\ n_iterations >= 1) =>
        /\ Len(returned[1].bus_recs) >= 1
        /\ IsMockRecord(returned[1].bus_recs[1])

\* ----------------------------------------------------------- the bus stops

\* C21: the list download_bus_stops returns has one bus stop per entry of
\* the result list of the valid response, in the order of the entries; the
\* id is the value of item 0 of the entry, the number that of item 1, the
\* position the numbers that the values of items 4 and 5 spell.
C21_OneBusStopPerEntry ==
    pc = "ret_download_bus_stops" =>
        LET result == fn_args[1].result
            bus_stops == fn_result[1]
        IN  /\ Len(bus_stops) = Len(result)
            /\ \A i \in 1..Len(result) :
                   /\ bus_stops[i].bus_stop_id = result[i].values[1].value
                   /\ bus_stops[i].bus_stop_number
                          = result[i].values[2].value
                   /\ result[i].values[5].value.numeric
                   /\ result[i].values[6].value.numeric
                   /\ bus_stops[i].pos.lat = result[i].values[5].value.number
                   /\ bus_stops[i].pos.lon = result[i].values[6].value.number

\* Three entries that differ in id and number were turned into three stops;
\* the first has a latitude other than its longitude.
C21_Witness ==
    /\ pc = "ret_download_bus_stops"
    /\ Len(fn_result[1]) = 3
    /\ fn_result[1][1].bus_stop_id # fn_result[1][2].bus_stop_id
    /\ fn_result[1][2].bus_stop_number # fn_result[1][3].bus_stop_number
    /\ fn_result[1][1].pos.lat # fn_result[1][1].pos.lon

\* -------------------------------------------------- retries past the deadline

\* C22: the retry loop of malformed responses never looks at the deadline:
\* a malformed response received when the end time has passed is counted as
\* a request and followed by another fetch; the successful requests and the
\* accepted records stay as they are, and the session neither returns nor
\* stops.
C22_MalformedRetriedPastDeadline ==
    [][(/\ pc = "request"
        /\ now >= time_of_end
        /\ n_malformed' # n_malformed)
           => /\ pc' = "request"
              /\ failure' = "none"
              /\ n_requests' = n_requests + 1
              /\ stats' = stats
              /\ bus_recs' = bus_recs
              /\ returned' = <<>>]_vars

\* ------------------------------------------------ the frame of the check

\* C23: the call of _is_record_valid on a record of vehicle V leaves the
\* entry of every other vehicle as it was; a record that rule (a) rejects
\* leaves the whole dict as it was; the entry of a vehicle never decreases
\* during a session, and it is at least every timestamp accepted for the
\* vehicle.
C23_FrameOfValidityCheck ==
    /\ [](/\ pc = "filter" =>
                \A i \in 1..Len(cur_bus_recs) :
                    LET rec == cur_bus_recs[i]
                        before == DictBefore(i)
                        after == Verdict(i).last
                    IN  /\ DOMAIN after \subseteq DOMAIN before \cup {rec.veh}
                        /\ \A w \in DOMAIN before :
                               /\ w \in DOMAIN after
                               /\ w # rec.veh => after[w] = before[w]
                               /\ after[w] >= before[w]
                        /\ (/\ rec.veh \in DOMAIN before
                            /\ before[rec.veh] >= rec.time)
                               => after = before
          /\ \A k \in 1..Len(bus_recs) :
                /\ bus_recs[k].veh \in DOMAIN last_bus_recs
                /\ last_bus_recs[bus_recs[k].veh] >= bus_recs[k].time)
    /\ [][\A w \in DOMAIN last_bus_recs :
              /\ w \in DOMAIN last_bus_recs'
              /\ last_bus_recs'[w] >= last_bus_recs[w]]_vars

\* A snapshot of three records is checked: one of a vehicle, one of another
\* vehicle, both accepted, then a duplicate of the first, which rule (a)
\* rejects against a dict that knows both vehicles.
C23_Witness ==
    /\ pc = "filter"
    /\ Len(cur_bus_recs) = 3
    /\ cur_bus_recs[1].veh # cur_bus_recs[2].veh
    /\ cur_bus_recs[3].veh = cur_bus_recs[1].veh
    /\ cur_bus_recs[3].time <= cur_bus_recs[1].time
    /\ Verdict(1).valid
    /\ Verdict(2).valid
    /\ ~Verdict(3).valid
    /\ Cardinality(DOMAIN DictBefore(3)) = 2
    /\ Verdict(3).last = DictBefore(3)

\* ------------------------------------------------- the length of the window

\* C24: the statistics of a session that returns have a window at least as
\* long as the configured duration; a session of duration 0 runs no
\* iteration and returns no record and three counters that are 0.
C24_WindowCoversDuration ==
    pc = "done" =>
        /\ returned[1].stats.processing_end_time
               - returned[1].stats.processing_start_time >= download_duration
        /\ download_duration = 0 =>
               /\ n_iterations = 0
               /\ n_fetches = 0
               /\ returned[1].bus_recs = <<>>
               /\ returned[1].stats.n_requests = 0
               /\ returned[1].stats.n_successful_requests = 0
               /\ returned[1].stats.n_records = 0

\* A session of positive duration ran an iteration and returned with a
\* window exactly as long as the duration.
C24_Witness ==
    /\ pc = "done"
    /\ download_duration >= 1
    /\ n_iterations >= 1
    /\ returned[1].stats.processing_end_time
           - returned[1].stats.processing_start_time = download_duration

\* ------------------------------------------------ the clusters partition

\* The identities of the records of items.
IdentitiesOf(items) == {Identity(items[i][1]) : i \in 1..Len(items)}

\* The sum of the member counts of clusters.
RECURSIVE SumOfCounts(_)
SumOfCounts(clusters) ==
    IF clusters = <<>> THEN 0
    ELSE clusters[1][2] + SumOfCounts(Tail(clusters))

\* C25: the member counts of the clusters of get_positions_of_interest sum
\* to the number of distinct (vehicle, time) identities of the input, every
\* count is at least 1, and the first cluster is at the position of the
\* first input record.
C25_ClustersPartitionIdentities ==
    pc = "ret_get_positions_of_interest" =>
        LET items == fn_args[1]
            clusters == fn_result[1]
        IN  /\ SumOfCounts(clusters) = Cardinality(IdentitiesOf(items))
            /\ \A c \in 1..Len(clusters) : clusters[c][2] >= 1
            /\ Len(items) >= 1 =>
                   /\ Len(clusters) >= 1
                   /\ clusters[1][1] = items[1][1].pos

\* Three records, the third with the identity of the first at another
\* place: two identities, two clusters of one member each.
C25_Witness ==
    /\ pc = "ret_get_positions_of_interest"
    /\ Len(fn_args[1]) = 3
    /\ Identity(fn_args[1][3][1]) = Identity(fn_args[1][1][1])
    /\ fn_args[1][3][1].pos # fn_args[1][1][1].pos
    /\ Cardinality(IdentitiesOf(fn_args[1])) = 2
    /\ Len(fn_result[1]) = 2
    /\ SumOfCounts(fn_result[1]) = 2

\* ------------------------------------------------- the number of speeds

\* C26 as stated: the list get_speeds returns has exactly one entry per
\* input record, for the empty list as for every other.
C26_OneSpeedPerRecord ==
    pc = "ret_get_speeds" => Len(fn_result[1]) = Len(fn_args[1])

\* ------------------------------------------ speeds of a recorded series

\* The records of recs of vehicle veh, in the order of recs.
RecordsOfVehicle(recs, veh) == SelectSeq(recs, LAMBDA rec : rec.veh = veh)

\* sorted with rec put after the last record that is not later than it.
RECURSIVE InsertByTime(_, _)
InsertByTime(rec, sorted) ==
    IF sorted = <<>> THEN <<rec>>
    ELSE IF rec.time < Head(sorted).time THEN <<rec>> \o sorted
    ELSE <<Head(sorted)>> \o InsertByTime(rec, Tail(sorted))

\* recs in non-decreasing order of time.
RECURSIVE SortByTime(_)
SortByTime(recs) ==
    IF recs = <<>> THEN <<>>
    ELSE InsertByTime(recs[Len(recs)],
                      SortByTime(SubSeq(recs, 1, Len(recs) - 1)))

\* recs arranged as get_speeds expects them, from vehicle veh on: the
\* records of each vehicle together, in non-decreasing order of time.
RECURSIVE ArrangedFrom(_, _)
ArrangedFrom(recs, veh) ==
    IF veh > NumVehicles THEN <<>>
    ELSE SortByTime(RecordsOfVehicle(recs, veh)) \o ArrangedFrom(recs, veh + 1)

\* recs, arranged, has a positive time difference between every two
\* consecutive records of one vehicle, and get_speeds does not raise on it.
SpeedsAreComputable(recs) ==
    LET arranged == ArrangedFrom(recs, 1)
    IN  /\ Len(arranged) = Len(recs)
        /\ \A i \in 2..Len(arranged) :
               arranged[i - 1].veh = arranged[i].veh
                   => arranged[i].time - arranged[i - 1].time > 0
        /\ ~get_speeds_raises(arranged)

\* C27: the list of accepted records of a session, between iterations and
\* when it is returned, once arranged by vehicle and time, has a strictly
\* positive time difference between consecutive records of one vehicle:
\* get_speeds divides by no zero on it.
C27_RecordedSeriesHasNoZeroDelta ==
    /\ pc = "loop" => SpeedsAreComputable(bus_recs)
    /\ pc = "done" => SpeedsAreComputable(returned[1].bus_recs)

\* A session returned three records in which one of another vehicle stands
\* between two of one vehicle: arranging moves a record, and the speed
\* between the two is computed over a positive time.
C27_Witness ==
    /\ pc = "done"
    /\ Len(returned[1].bus_recs) = 3
    /\ returned[1].bus_recs[1].veh = returned[1].bus_recs[3].veh
    /\ returned[1].bus_recs[1].veh # returned[1].bus_recs[2].veh
    /\ ArrangedFrom(returned[1].bus_recs, 1) # returned[1].bus_recs
    /\ \E i \in 2..3 :
           LET arranged == ArrangedFrom(returned[1].bus_recs, 1)
           IN  /\ arranged[i - 1].veh = arranged[i].veh
               /\ get_speed(arranged[i - 1], arranged[i]).defined

\* ------------------------------------------------ the files of departures

\* The rows that stand for the departures of runs, in their order.
RowsOf(runs) ==
    [k \in 1..Len(runs) |-> <<runs[k].bus_stop_id, runs[k].bus_stop_number,
                              runs[k].line, runs[k].n>>]

\* The number of departures of rows.
RECURSIVE RowCount(_)
RowCount(rows) ==
    IF rows = <<>> THEN 0 ELSE Head(rows)[4] + RowCount(Tail(rows))

\* The contents of the files 1..k, one after the other.
RECURSIVE ContentsUpTo(_)
ContentsUpTo(k) == IF k = 0 THEN <<>> ELSE ContentsUpTo(k - 1) \o files[k]

\* C28: when download_departures has returned, the files 1..k it wrote,
\* read one after the other, hold every downloaded departure once and in
\* download order; the ids written are 1, 2, ..., k, each once, and no file
\* is empty; after the departures of a line are appended the buffer is
\* saved exactly when it holds more than 10000 departures, and it is empty
\* right after that; nothing is saved at any other point before the end.
C28_DeparturesSavedOnceInOrder ==
    /\ [](/\ \A a, b \in 1..Len(writes) : a # b => writes[a] # writes[b]
          /\ DOMAIN files = {writes[a] : a \in 1..Len(writes)}
          /\ \A id \in DOMAIN files : RowCount(files[id]) >= 1
          /\ pc = "ret_download_departures" =>
                LET k == Len(writes)
                IN  /\ writes = [j \in 1..k |-> j]
                    /\ DOMAIN files = 1..k
                    /\ ContentsUpTo(k) = RowsOf(downloaded)
                    /\ RowCount(ContentsUpTo(k)) = n_departures)
    /\ [][/\ pc = "appended" =>
                /\ writes' # writes <=> RowCount(RowsOf(departures)) > 10000
                /\ writes' # writes => departures' = <<>>
          /\ (pc # "appended" /\ pc' # "ret_download_departures") =>
                (writes' = writes /\ files' = files)]_vars

\* download_departures returned after four responses of 5000 departures:
\* the buffer was kept at 10000, saved to file 1 at 15000, and the last 5000
\* went to file 2.
C28_Witness ==
    /\ pc = "ret_download_departures"
    /\ writes = <<1, 2>>
    /\ RowCount(files[1]) = 15000
    /\ RowCount(files[2]) = 5000
    /\ n_departures = 20000

====
